---- MODULE Spec2Model ----
(***************************************************************************)
(* A model of packer.py: the start-up code that resolves the plugin        *)
(* version and the list of target engine versions, and pack(), the pass    *)
(* that stages, rewrites and archives the plugin for one engine version.   *)
(*                                                                         *)
(* Strings are sequences of lexemes whose concatenation is the string:     *)
(* "5.1" is <<"5", ".", "1">>, and "+" of two strings is \o.  Python       *)
(* values carry their type: a str, a semver.VersionInfo or a list.         *)
(***************************************************************************)
EXTENDS Integers, Sequences, FiniteSets, TLC

\* ------------------------------------------------------------- bounds
\* Largest number a version component is read as.
MaxNum == 27
\* Longest EngineVersions list of the packer configuration.
MaxTargets == 2
\* Longest WhitelistPlatforms list of the module drawn by InitRewrite.
MaxPlatforms == 3

\* ------------------------------------------------------ python values
PyStr(s) == [type |-> "str", s |-> s]

VersionInfo(major, minor, patch) ==
    [type |-> "VersionInfo", major |-> major, minor |-> minor, patch |-> patch]

PyList(items) == [type |-> "list", items |-> items]

\* A name that has never been assigned: reading it raises NameError.
Unbound == [type |-> "unbound"]

IsNumeral(t) == \E n \in 0..MaxNum : ToString(n) = t

NumeralValue(t) == CHOOSE n \in 0..MaxNum : ToString(n) = t

\* semver.VersionInfo.parse accepts exactly major "." minor "." patch.
IsSemVer(s) ==
    /\ Len(s) = 5
    /\ s[2] = "." /\ s[4] = "."
    /\ IsNumeral(s[1]) /\ IsNumeral(s[3]) /\ IsNumeral(s[5])

\* semver.VersionInfo.parse(s), defined where IsSemVer(s).
SemVerParse(s) ==
    VersionInfo(NumeralValue(s[1]), NumeralValue(s[3]), NumeralValue(s[5]))

\* str(x)
Str(x) ==
    CASE x.type = "str" -> x.s
      [] x.type = "VersionInfo" ->
            <<ToString(x.major), ".", ToString(x.minor), ".", ToString(x.patch)>>
      [] x.type = "list" -> IF x.items = <<>> THEN <<"[]">> ELSE <<"[...]">>

\* f"{v.major}.{v.minor}"
MajorMinor(v) == <<ToString(v.major), ".", ToString(v.minor)>>

\* f"{v.major}.{v.minor}.{v.patch}"
MajorMinorPatch(v) ==
    <<ToString(v.major), ".", ToString(v.minor), ".", ToString(v.patch)>>

\* PackageType.__str__
PackageTypeStr(t) == IF t = "GAME" THEN <<"game">> ELSE <<"engine">>

\* d[k] = v on a dict
SetItem(d, k, v) == [x \in DOMAIN d \cup {k} |-> IF x = k THEN v ELSE d[x]]

\* ---------------------------------------------------------- constants
PACKAGE_SITE == "Package.Site"

COMPONENTS == {"Config", "Docs", "Source", "Resources"}

plugin_name == <<"Plugin">>

plugin_file == <<"Plugin", ".uplugin">>

\* -------------------------------------------------------------- state
VARIABLES
    configFile,            \* PackerConfig.json in the working directory
    descriptorFile,        \* the *.uplugin file in the working directory
    workdir,               \* the components present in the working directory
    argv,                  \* the command line
    site,                  \* the staging directory Package.Site
    archives,              \* the zip archives in the working directory
    pc,                    \* the statement the program is at
    error,                 \* the exception that ended the program, if any
    main_plugin_version,   \* module-level names
    short_plugin_version,
    engine_version,
    engine_versions,
    args,
    next,                  \* position of the loop over engine_versions
    pack_engine_version,   \* pack()'s locals (engine_version is its parameter)
    short_engine_version,
    full_plugin_version,
    file_plugin_version,
    data

inputs == <<configFile, workdir, argv>>

globals == <<main_plugin_version, short_plugin_version, engine_version,
             engine_versions, args>>

locals == <<pack_engine_version, short_engine_version, full_plugin_version,
            file_plugin_version, data>>

vars == <<configFile, descriptorFile, workdir, argv, site, archives, pc, error,
          main_plugin_version, short_plugin_version, engine_version,
          engine_versions, args, next, pack_engine_version,
          short_engine_version, full_plugin_version, file_plugin_version, data>>

\* ------------------------------------------------------------- inputs
\* JSON strings are lexeme sequences; platform names and module types are
\* single lexemes and written as plain strings.
EmptyDict == [x \in {} |-> x]

OptField(k, opt) == IF opt = <<>> THEN EmptyDict ELSE k :> opt[1]

Optional(S) == {<<>>} \cup {<<x>> : x \in S}

SeqsUpTo(S, n) == UNION {[1..k -> S] : k \in 0..n}

TargetStrings ==
    { <<"4", ".", "27">>, <<"5", ".", "1">>, <<"5", ".", "1", ".", "0">>,
      <<"Unknown">> }

ConfigFiles(lists) ==
    { [status |-> "missing"], [status |-> "malformed"],
      [status |-> "ok", json |-> [Comment |-> <<"none">>]] }
    \cup { [status |-> "ok", json |-> [EngineVersions |-> l]] : l \in lists }

DescriptorFiles(versionNames, engineVersions, moduleLists) ==
    { ("FriendlyName" :> <<"Plugin">>) @@ OptField("VersionName", vn)
        @@ OptField("EngineVersion", en) @@ OptField("Modules", ms) :
        vn \in versionNames, en \in engineVersions, ms \in moduleLists }

RuntimeModule == [Name |-> "Core", Type |-> "Runtime",
                  WhitelistPlatforms |-> <<"Win64", "Win32", "Mac">>]

EditorModule == [Name |-> "Editor", Type |-> "Editor",
                 WhitelistPlatforms |-> <<"Win32", "Win64">>]

PlatformNames == {"Win32", "Win64", "IOS", "Switch", "PS4", "XboxOne"}

ModuleTypes == {"Runtime", "UncookedOnly", "Editor"}

WorkDirs ==
    { [components |-> {}, defaultIni |-> FALSE],
      [components |-> {"Config", "Source"}, defaultIni |-> FALSE],
      [components |-> {"Config", "Source", "Resources"}, defaultIni |-> TRUE] }

NoSite == [exists |-> FALSE, components |-> {}, ini |-> "none", descriptor |-> <<>>]

\* What an earlier run that aborted in mid-pass left behind.
StaleSite == [exists |-> TRUE, components |-> {"Docs"}, ini |-> "none",
              descriptor |-> <<>>]

InitProgram ==
    /\ site \in {NoSite, StaleSite}
    /\ archives = {}
    /\ pc = "load_config"
    /\ error = "none"
    /\ main_plugin_version = PyStr(<<"Unknown">>)
    /\ short_plugin_version = PyStr(<<"Unknown">>)
    /\ engine_version = PyList(<<>>)
    /\ engine_versions = Unbound
    /\ args = Unbound
    /\ next = 1
    /\ pack_engine_version = Unbound
    /\ short_engine_version = Unbound
    /\ full_plugin_version = Unbound
    /\ file_plugin_version = Unbound
    /\ data = Unbound

Init ==
    /\ configFile \in ConfigFiles(SeqsUpTo(TargetStrings, MaxTargets))
    /\ descriptorFile \in DescriptorFiles(
            Optional({<<"1", ".", "2", ".", "3">>, <<"1", ".", "2">>}),
            Optional({<<"4", ".", "27", ".", "0">>}),
            Optional({<<RuntimeModule, EditorModule>>}))
    /\ workdir \in WorkDirs
    /\ argv \in [engine : BOOLEAN, ue : Optional({<<"5", ".", "0">>})]
    /\ InitProgram

\* Start states that vary the module the platform rules rewrite.
InitRewrite ==
    /\ configFile \in
         {[status |-> "missing"]} \cup
         { [status |-> "ok", json |-> [EngineVersions |-> <<t>>]] :
             t \in TargetStrings }
    /\ descriptorFile \in DescriptorFiles(
            {<<<<"1", ".", "2", ".", "3">>>>},
            {<<<<"4", ".", "27", ".", "0">>>>},
            {<<>>} \cup
            UNION { {<<<<m>>>>, <<<<EditorModule, m>>>>} :
                    m \in [Name : {"Core"}, Type : ModuleTypes,
                           WhitelistPlatforms :
                               SeqsUpTo(PlatformNames, MaxPlatforms)] })
    /\ workdir \in {[components |-> {"Config", "Source"}, defaultIni |-> TRUE]}
    /\ argv \in [engine : {FALSE}, ue : {<<>>}]
    /\ InitProgram

\* ------------------------------------------------------------ start-up
\* json.load of the configuration inside try/except: pass
LoadConfig ==
    /\ pc = "load_config"
    /\ engine_versions' =
         IF configFile.status = "ok" /\ "EngineVersions" \in DOMAIN configFile.json
         THEN PyList([i \in DOMAIN configFile.json.EngineVersions |->
                         PyStr(configFile.json.EngineVersions[i])])
         ELSE engine_versions
    /\ pc' = "load_descriptor"
    /\ UNCHANGED <<inputs, descriptorFile, site, archives, error,
                   main_plugin_version, short_plugin_version, engine_version,
                   args, next, locals>>

LoadDescriptor ==
    /\ pc = "load_descriptor"
    /\ main_plugin_version' =
         IF "VersionName" \in DOMAIN descriptorFile
         THEN PyStr(descriptorFile.VersionName) ELSE main_plugin_version
    /\ engine_version' =
         IF "EngineVersion" \in DOMAIN descriptorFile
         THEN PyStr(descriptorFile.EngineVersion) ELSE engine_version
    /\ pc' = "default_targets"
    /\ UNCHANGED <<inputs, descriptorFile, site, archives, error,
                   short_plugin_version, engine_versions, args, next, locals>>

\* if len(engine_versions) == 0: engine_versions = [engine_version]
DefaultTargets ==
    /\ pc = "default_targets"
    /\ engine_versions # Unbound
    /\ engine_versions' =
         IF Len(engine_versions.items) = 0
         THEN PyList(<<engine_version>>) ELSE engine_versions
    /\ pc' = "parse_versions"
    /\ UNCHANGED <<inputs, descriptorFile, site, archives, error,
                   main_plugin_version, short_plugin_version, engine_version,
                   args, next, locals>>

\* engine_versions was never assigned: len(engine_versions) raises NameError
DefaultTargetsNameError ==
    /\ pc = "default_targets"
    /\ engine_versions = Unbound
    /\ pc' = "failed"
    /\ error' = "NameError"
    /\ UNCHANGED <<inputs, descriptorFile, site, archives, globals, next, locals>>

\* The value semver.VersionInfo.parse is given parses.
Parses(x) == x.type = "str" /\ IsSemVer(x.s)

ParseVersions ==
    /\ pc = "parse_versions"
    /\ IF Parses(main_plugin_version)
       THEN /\ short_plugin_version' =
                 PyStr(MajorMinor(SemVerParse(main_plugin_version.s)))
            /\ main_plugin_version' =
                 PyStr(MajorMinorPatch(SemVerParse(main_plugin_version.s)))
       ELSE UNCHANGED <<main_plugin_version, short_plugin_version>>
    /\ engine_version' =
         IF Parses(engine_version)
         THEN PyStr(MajorMinor(SemVerParse(engine_version.s)))
         ELSE engine_version
    /\ pc' = "parse_args"
    /\ UNCHANGED <<inputs, descriptorFile, site, archives, error,
                   engine_versions, args, next, locals>>

ParseArgs ==
    /\ pc = "parse_args"
    /\ args' = [type |-> IF argv.engine THEN "ENGINE" ELSE "GAME",
                ue |-> IF argv.ue = <<>> THEN engine_version ELSE PyStr(argv.ue[1])]
    /\ pc' = "loop"
    /\ UNCHANGED <<inputs, descriptorFile, site, archives, error,
                   main_plugin_version, short_plugin_version, engine_version,
                   engine_versions, next, locals>>

\* ---------------------------------------------------------- main loop
\* for ev in engine_versions: pack(ev)
NextTarget ==
    /\ pc = "loop"
    /\ next <= Len(engine_versions.items)
    /\ pack_engine_version' = engine_versions.items[next]
    /\ next' = next + 1
    /\ pc' = "resolve"
    /\ UNCHANGED <<inputs, descriptorFile, site, archives, error, globals,
                   short_engine_version, full_plugin_version,
                   file_plugin_version, data>>

Finish ==
    /\ pc = "loop"
    /\ next > Len(engine_versions.items)
    /\ pc' = "done"
    /\ UNCHANGED <<inputs, descriptorFile, site, archives, error, globals, next,
                   locals>>

\* --------------------------------------------------------------- pack()
\* The two attempts at semver.VersionInfo.parse; the value is kept when both fail.
ResolveEngineVersion(x) ==
    IF IsSemVer(Str(x)) THEN SemVerParse(Str(x))
    ELSE IF IsSemVer(Str(x) \o <<".", "0">>)
         THEN SemVerParse(Str(x) \o <<".", "0">>)
         ELSE x

\* a bug: the patch number is kept in the short string
ShortEngineVersionWithPatch(x) == Str(x)

ShortEngineVersion(x) ==
    IF x.type = "VersionInfo" THEN MajorMinor(x) ELSE Str(x)

ResolveVersion ==
    /\ pc = "resolve"
    /\ pack_engine_version' = ResolveEngineVersion(pack_engine_version)
    /\ short_engine_version' =
         PyStr(ShortEngineVersion(ResolveEngineVersion(pack_engine_version)))
    /\ pc' = "clear_stage"
    /\ UNCHANGED <<inputs, descriptorFile, site, archives, error, globals, next,
                   full_plugin_version, file_plugin_version, data>>

\* shutil.rmtree(PACKAGE_SITE); os.mkdir(PACKAGE_SITE)
ClearStage ==
    /\ pc = "clear_stage"
    /\ site' = [exists |-> TRUE, components |-> {}, ini |-> "none",
                descriptor |-> <<>>]
    /\ pc' = "assemble_stage"
    /\ UNCHANGED <<inputs, descriptorFile, archives, error, globals, next, locals>>

\* for comp in COMPONENTS: copy what exists
AssembleStage ==
    /\ pc = "assemble_stage"
    /\ site' = [site EXCEPT
                  !.components = workdir.components \cap COMPONENTS,
                  !.ini = IF "Config" \in workdir.components /\ workdir.defaultIni
                          THEN "Default" ELSE "none"]
    /\ pc' = "rewrite"
    /\ UNCHANGED <<inputs, descriptorFile, archives, error, globals, next, locals>>

\* f"{version}+ue.{short_engine_version}.{args.type}"
VersionFormat(version) ==
    Str(version) \o <<"+ue", ".">> \o Str(short_engine_version) \o <<".">>
        \o PackageTypeStr(args.type)

\* a bug: the record of the pass before is used again
ReloadDescriptorCached == IF data = Unbound THEN descriptorFile ELSE data

\* with open(plugin_file) as json_file: data = json.load(json_file)
ReloadDescriptor == descriptorFile

\* data['VersionName'] = full_plugin_version; data['EngineVersion'] = str(engine_version)
SetVersions(d) ==
    SetItem(SetItem(d, "VersionName", VersionFormat(main_plugin_version)),
            "EngineVersion", Str(pack_engine_version))

Contains(platforms, p) == \E i \in DOMAIN platforms : platforms[i] = p

\* list.remove(x): the first occurrence goes
ListRemove(platforms, p) ==
    LET i == CHOOSE k \in DOMAIN platforms :
                 platforms[k] = p /\ \A j \in 1..(k - 1) : platforms[j] # p
    IN  SubSeq(platforms, 1, i - 1) \o SubSeq(platforms, i + 1, Len(platforms))

\* if "Win32" in platforms: platforms.remove("Win32")
RemoveDeprecated(platforms) ==
    IF Contains(platforms, "Win32") THEN ListRemove(platforms, "Win32")
    ELSE platforms

\* a bug: the membership test is left out
AppendAlways(platforms, p) == Append(platforms, p)

\* if p not in platforms: platforms.append(p)
AppendIfAbsent(platforms, p) ==
    IF Contains(platforms, p) THEN platforms ELSE Append(platforms, p)

ExpandPlatforms(module) ==
    IF module.Type = "Runtime" \/ module.Type = "UncookedOnly"
    THEN AppendIfAbsent(AppendIfAbsent(AppendIfAbsent(AppendIfAbsent(
             module.WhitelistPlatforms, "IOS"), "Switch"), "PS4"), "XboxOne")
    ELSE module.WhitelistPlatforms

\* The two loops over data['Modules'], for a parsed engine version.
RewriteModule(module, major) ==
    LET kept == [module EXCEPT !.WhitelistPlatforms =
                    IF major >= 5 THEN RemoveDeprecated(@) ELSE @]
    IN  [kept EXCEPT !.WhitelistPlatforms = ExpandPlatforms(kept)]

RewriteModules(d, major) ==
    [d EXCEPT !.Modules = [i \in DOMAIN d.Modules |->
                              RewriteModule(d.Modules[i], major)]]

Rewrite ==
    /\ pc = "rewrite"
    /\ pack_engine_version.type = "VersionInfo"
    /\ "Modules" \in DOMAIN ReloadDescriptor
    /\ full_plugin_version' = PyStr(VersionFormat(main_plugin_version))
    /\ file_plugin_version' = PyStr(VersionFormat(short_plugin_version))
    /\ data' = RewriteModules(SetVersions(ReloadDescriptor),
                              pack_engine_version.major)
    /\ pc' = "rename_config"
    /\ UNCHANGED <<inputs, descriptorFile, site, archives, error, globals, next,
                   pack_engine_version, short_engine_version>>

\* engine_version.major on a value that is no VersionInfo
RewriteAttributeError ==
    /\ pc = "rewrite"
    /\ pack_engine_version.type # "VersionInfo"
    /\ full_plugin_version' = PyStr(VersionFormat(main_plugin_version))
    /\ file_plugin_version' = PyStr(VersionFormat(short_plugin_version))
    /\ data' = SetVersions(ReloadDescriptor)
    /\ pc' = "failed"
    /\ error' = "AttributeError"
    /\ UNCHANGED <<inputs, descriptorFile, site, archives, globals, next,
                   pack_engine_version, short_engine_version>>

\* data['Modules'] on a descriptor without modules
RewriteKeyError ==
    /\ pc = "rewrite"
    /\ pack_engine_version.type = "VersionInfo"
    /\ "Modules" \notin DOMAIN ReloadDescriptor
    /\ full_plugin_version' = PyStr(VersionFormat(main_plugin_version))
    /\ file_plugin_version' = PyStr(VersionFormat(short_plugin_version))
    /\ data' = SetVersions(ReloadDescriptor)
    /\ pc' = "failed"
    /\ error' = "KeyError"
    /\ UNCHANGED <<inputs, descriptorFile, site, archives, globals, next,
                   pack_engine_version, short_engine_version>>

\* Default{plugin_name}.ini becomes Base{plugin_name}.ini in an ENGINE package
RenameConfig ==
    /\ pc = "rename_config"
    /\ site' = IF args.type = "ENGINE" /\ site.ini = "Default"
               THEN [site EXCEPT !.ini = "Base"] ELSE site
    /\ pc' = "write_descriptor"
    /\ UNCHANGED <<inputs, descriptorFile, archives, error, globals, next, locals>>

\* os.path.join(PACKAGE_SITE, plugin_file)
site_plugin_file == <<PACKAGE_SITE>> \o plugin_file

\* with open(site_plugin_file, 'w') as outfile: json.dump(data, outfile)
\* The file written is the staged copy when the path leads into Package.Site,
\* and the descriptor of the working directory when the path is plugin_file.
WriteDescriptor ==
    /\ pc = "write_descriptor"
    /\ IF site_plugin_file[1] = PACKAGE_SITE
       THEN /\ site' = [site EXCEPT !.descriptor = <<data>>]
            /\ UNCHANGED descriptorFile
       ELSE /\ descriptorFile' = data
            /\ UNCHANGED site
    /\ pc' = "archive"
    /\ UNCHANGED <<inputs, archives, error, globals, next, locals>>

\* f"{plugin_name}-{file_plugin_version}" with make_archive's ".zip"
ArchiveName ==
    plugin_name \o <<"-">> \o Str(file_plugin_version) \o <<".zip">>

\* shutil.make_archive: a file of that name is replaced
Archive ==
    /\ pc = "archive"
    /\ archives' = {a \in archives : a.name # ArchiveName}
                     \cup {[name |-> ArchiveName, content |-> site]}
    /\ pc' = "cleanup_stage"
    /\ UNCHANGED <<inputs, descriptorFile, site, error, globals, next, locals>>

\* a bug: the pass ends without removing the staging directory
CleanupStageSkipped ==
    /\ pc = "cleanup_stage"
    /\ pc' = "loop"
    /\ UNCHANGED <<inputs, descriptorFile, site, archives, error, globals, next,
                   locals>>

\* shutil.rmtree(PACKAGE_SITE)
CleanupStage ==
    /\ pc = "cleanup_stage"
    /\ site' = NoSite
    /\ pc' = "loop"
    /\ UNCHANGED <<inputs, descriptorFile, archives, error, globals, next, locals>>

Next ==
    \/ LoadConfig
    \/ LoadDescriptor
    \/ DefaultTargets
    \/ DefaultTargetsNameError
    \/ ParseVersions
    \/ ParseArgs
    \/ NextTarget
    \/ Finish
    \/ ResolveVersion
    \/ ClearStage
    \/ AssembleStage
    \/ Rewrite
    \/ RewriteAttributeError
    \/ RewriteKeyError
    \/ RenameConfig
    \/ WriteDescriptor
    \/ Archive
    \/ CleanupStage

Spec == Init /\ [][Next]_vars

SpecRewrite == InitRewrite /\ [][Next]_vars

\* ------------------------------------------------------ claim helpers
EarlyPcs == {"load_config", "load_descriptor", "default_targets"}

\* pack() is past the rewrite of the descriptor
Rewritten == pc \in {"rename_config", "write_descriptor", "archive", "cleanup_stage"}

\* the staged descriptor has been written
Staged == pc \in {"archive", "cleanup_stage"}

IsMajorMinor(s) == Len(s) = 3 /\ s[2] = "." /\ IsNumeral(s[1]) /\ IsNumeral(s[3])

Count(platforms, p) == Cardinality({i \in DOMAIN platforms : platforms[i] = p})

\* ------------------------------------------------------------------ C1
\* C1: once the targets are selected the program has not failed, and the
\* targets are the configuration's EngineVersions list when the file supplies
\* a non-empty one, and else the one-element list of the descriptor's
\* EngineVersion ("Unknown" when the descriptor declares none).
C1_ConfigSupplies ==
    /\ configFile.status = "ok"
    /\ "EngineVersions" \in DOMAIN configFile.json
    /\ configFile.json.EngineVersions # <<>>

C1_ExpectedTargets ==
    IF C1_ConfigSupplies
    THEN PyList([i \in DOMAIN configFile.json.EngineVersions |->
                    PyStr(configFile.json.EngineVersions[i])])
    ELSE PyList(<<PyStr(IF "EngineVersion" \in DOMAIN descriptorFile
                        THEN descriptorFile.EngineVersion ELSE <<"Unknown">>)>>)

C1_TargetSelection ==
    pc \notin EarlyPcs => error # "NameError" /\ engine_versions = C1_ExpectedTargets

\* ------------------------------------------------------------------ C2
\* C2: a pass for a target that is no semantic version, even with ".0"
\* appended, does not fail, and the string is the engine short string as is.
C2_Opaque ==
    /\ pack_engine_version.type = "str"
    /\ pc \notin {"resolve", "loop"}

C2_OpaqueTargetPasses ==
    C2_Opaque => /\ pc # "failed"
                 /\ short_engine_version = PyStr(Str(pack_engine_version))

\* ------------------------------------------------------------------ C3
\* C3: the staged descriptor of a pass has EngineVersion equal to the engine's
\* short string "major.minor", and VersionName equal to the plugin's
\* major.minor.patch, "+ue.", the engine's major.minor, ".", and the type.
C3_Target == engine_versions.items[next - 1]

C3_StagedVersions ==
    Staged =>
      LET d == site.descriptor[1]
          short == SubSeq(Str(C3_Target), 1, 3)
      IN  /\ d.EngineVersion = short
          /\ ("VersionName" \in DOMAIN descriptorFile
                /\ IsSemVer(descriptorFile.VersionName))
             => d.VersionName = descriptorFile.VersionName \o <<"+ue", ".">>
                                  \o short \o <<".">> \o PackageTypeStr(args.type)

\* ------------------------------------------------------------------ C4
\* C4: a pass packages for the value of --unreal-engine when the option is
\* given, and for the derived engine version when it is not.
C4_OverrideUsed ==
    pc = "resolve" =>
      pack_engine_version = IF argv.ue # <<>> THEN PyStr(argv.ue[1])
                            ELSE engine_versions.items[next - 1]

\* ------------------------------------------------------------------ C5
\* C5: a plugin VersionName M.m yields the short string M.m (parsed as
\* M.m.0), and a VersionName M.m.p the full string M.m.p and the short string
\* M.m, so that the archive's name starts with plugin_name, "-", M.m, "+ue.".
C5_PluginVersionResolved ==
    (pc \notin EarlyPcs \cup {"parse_versions", "failed"}
       /\ "VersionName" \in DOMAIN descriptorFile) =>
      LET v == descriptorFile.VersionName
      IN  /\ IsMajorMinor(v) => short_plugin_version = PyStr(v)
          /\ IsSemVer(v) => /\ main_plugin_version = PyStr(v)
                            /\ short_plugin_version = PyStr(SubSeq(v, 1, 3))
          /\ (IsMajorMinor(v) \/ IsSemVer(v)) =>
               \A a \in archives :
                  SubSeq(a.name, 1, 6) =
                    plugin_name \o <<"-">> \o SubSeq(v, 1, 3) \o <<"+ue">>

\* ------------------------------------------------------------------ C6
\* C6: after the rewrite every module holds no "Win32" when the engine's major
\* version is at least 5, and as many as in the descriptor when it is below 5.
C6_Win32Count ==
    Rewritten =>
      \A i \in DOMAIN data.Modules :
        Count(data.Modules[i].WhitelistPlatforms, "Win32") =
          IF pack_engine_version.major >= 5 THEN 0
          ELSE Count(descriptorFile.Modules[i].WhitelistPlatforms, "Win32")

\* ------------------------------------------------------------------ C7
C7_Four == <<"IOS", "Switch", "PS4", "XboxOne">>

\* the module's platform list as the expansion loop finds it
C7_Before(i) ==
    IF pack_engine_version.major >= 5
    THEN RemoveDeprecated(descriptorFile.Modules[i].WhitelistPlatforms)
    ELSE descriptorFile.Modules[i].WhitelistPlatforms

C7_Missing(before) == SelectSeq(C7_Four, LAMBDA p : ~Contains(before, p))

\* C7: after the rewrite a "Runtime" or "UncookedOnly" module lists what it
\* listed before the expansion, in that order, followed by those of IOS,
\* Switch, PS4, XboxOne it lacked, in that order; a module of another type
\* lists what it listed before; expanding the result again changes nothing.
C7_PlatformExpansion ==
    Rewritten =>
      \A i \in DOMAIN data.Modules :
        LET m == data.Modules[i]
        IN  /\ m.Type \in {"Runtime", "UncookedOnly"} =>
                 m.WhitelistPlatforms = C7_Before(i) \o C7_Missing(C7_Before(i))
            /\ m.Type \notin {"Runtime", "UncookedOnly"} =>
                 m.WhitelistPlatforms = C7_Before(i)
            /\ ExpandPlatforms(m) = m.WhitelistPlatforms

\* a Runtime module that had Switch but not IOS has been expanded
C7_Witness ==
    /\ Rewritten
    /\ \E i \in DOMAIN data.Modules :
         /\ data.Modules[i].Type = "Runtime"
         /\ Contains(descriptorFile.Modules[i].WhitelistPlatforms, "Switch")
         /\ ~Contains(descriptorFile.Modules[i].WhitelistPlatforms, "IOS")
         /\ Len(data.Modules[i].WhitelistPlatforms) >
              Len(descriptorFile.Modules[i].WhitelistPlatforms)

\* ------------------------------------------------------------------ C8
C8_Targets == engine_versions.items

\* the targets whose passes have completed
C8_Packed == 1..(next - 1)

\* major "." minor of a target M.m or M.m.p
C8_TargetShort(t) == SubSeq(Str(t), 1, 3)

C8_ExpectedName(t) ==
    plugin_name \o <<"-">> \o Str(short_plugin_version) \o <<"+ue", ".">>
        \o C8_TargetShort(t) \o <<".">> \o PackageTypeStr(args.type) \o <<".zip">>

\* C8 as claimed: a completed run over pairwise distinct target strings
\* leaves as many archives as targets.
C8_DistinctTargetsDistinctArchives ==
    (pc = "done"
       /\ \A j, k \in DOMAIN C8_Targets : j # k => C8_Targets[j] # C8_Targets[k])
    => Cardinality(archives) = Len(C8_Targets)

\* C8 amended: between passes and at the end of a run the archives are those
\* named plugin_name "-" short plugin version "+ue." engine major.minor "."
\* type ".zip" for the targets packed so far, one per distinct engine
\* major.minor; the short plugin version of a VersionName M.m.p is M.m.
C8_OneArchivePerShortVersion ==
    pc \in {"loop", "done"} =>
      /\ {a.name : a \in archives} =
           {C8_ExpectedName(C8_Targets[k]) : k \in C8_Packed}
      /\ Cardinality(archives) =
           Cardinality({C8_TargetShort(C8_Targets[k]) : k \in C8_Packed})
      /\ ("VersionName" \in DOMAIN descriptorFile
            /\ IsSemVer(descriptorFile.VersionName))
         => Str(short_plugin_version) = SubSeq(descriptorFile.VersionName, 1, 3)

\* a run over two distinct targets has completed and left two archives
C8_Witness ==
    /\ pc = "done"
    /\ Len(C8_Targets) = 2
    /\ C8_Targets[1] # C8_Targets[2]
    /\ Cardinality(archives) = 2

\* ------------------------------------------------------------------ C9
\* C9 as claimed: the staging directory is absent when a later pass starts
\* and when the program has ended, after a completed or an aborted pass.
C9_StageNeverOutlivesPass ==
    /\ (pc = "loop" /\ next > 1) => ~site.exists
    /\ pc = "done" => ~site.exists
    /\ (pc = "failed" /\ pack_engine_version # Unbound) => ~site.exists

\* C9 amended: the staging directory is absent when a later pass starts and
\* at the end of a run whose passes all completed; a pass that aborts on an
\* unhandled failure leaves it in place.
C9_StageRemovedByCompletedPass ==
    /\ (pc = "loop" /\ next > 1) => ~site.exists
    /\ pc = "done" => ~site.exists
    /\ (pc = "failed" /\ error \in {"AttributeError", "KeyError"}) => site.exists

\* the second pass of a run aborted after the first left its archive
C9_Witness ==
    /\ pc = "failed"
    /\ error = "AttributeError"
    /\ next = 3
    /\ Cardinality(archives) = 1
    /\ site.exists

\* ----------------------------------------------------------------- C10
\* the rewrite of the descriptor as it is on disk, for the pass in progress
C10_FreshRewrite ==
    RewriteModules(
        SetItem(SetItem(descriptorFile, "VersionName", Str(full_plugin_version)),
                "EngineVersion", Str(pack_engine_version)),
        pack_engine_version.major)

\* C10: no step changes the descriptor file of the working directory, and
\* what a pass writes to the staged copy is the rewrite of that file's
\* content, whatever the passes before it did.
C10_DescriptorFileUntouched ==
    [][/\ descriptorFile' = descriptorFile
       /\ pc = "write_descriptor" => site'.descriptor = <<C10_FreshRewrite>>]_vars

\* the second pass of a run has staged its rewritten descriptor
C10_Witness ==
    /\ Staged
    /\ next = 3
    /\ archives # {}
    /\ site.descriptor # <<descriptorFile>>
    /\ site.descriptor # <<(CHOOSE a \in archives : TRUE).content.descriptor[1]>>
====
